---- MODULE Spec2Model ----
(***************************************************************************)
(* Model of the two provisioning scripts of the repository:                *)
(*   auto_secrets.py         preflight + encrypted secret upsert           *)
(*   setup_collaborators.py  invite / accept collaborator bootstrap        *)
(* One behaviour is one run of one of the two scripts (variable prog)      *)
(* against a host whose answers are chosen nondeterministically.           *)
(* A username or a token is represented by the number of the environment   *)
(* slot (USERNAMEi / PATi) it was read from.                                *)
(***************************************************************************)
EXTENDS Integers, Sequences, FiniteSets, TLC

\* ---------------------------------------------------------------- bounds
MaxSlots == 3          \* environment slots modelled (the scripts read 20)
MaxInv == 2            \* longest invitation list the host returns
MaxKeys == 2           \* repository public keys the host rotates through
MaxPlain == 2          \* longest secret value sealed
MaxPrivate == 3        \* private keys of the repository tried
MaxEphemeral == 3      \* ephemeral keys a seal can draw
MaxSeals == 2          \* seals of the same value under the same key

\* ------------------------------------------------------------- constants
AdminSlot == 1         \* PAT1 is the admin token
ClientTimeout == 10    \* timeout=10 of every request of GitHubClient.call
NoTimeout == 0         \* requests.get / requests.put called without timeout
Slots == 1..MaxSlots
Statuses == {200, 201, 204, 404}
CallSuccessStatuses == {200, 201, 204}
SecretPutSuccessStatuses == {201, 204}
RequiredScopes == {"repo", "workflow"}
ScopeNames == {"repo", "workflow", "gist"}
ScopeOrder == <<"gist", "repo", "workflow">>
SEP == ", "
RepoNames == {"target", "other"}
KeyIds == 1..MaxKeys
\* values of the TARGET_REPO variable, character by character: unset or
\* empty, without a slash, owner/repo
RepoEnvs == {<<>>, <<"r">>, <<"o", "/", "r">>}
AdminNames == 0..MaxSlots

VARIABLES
    prog,           \* which script runs: "secrets" or "collab"
    users,          \* slots i with USERNAMEi set
    pats,           \* slots i with PATi set
    admin_env,      \* ADMIN_USERNAME: the slot whose username it is, 0 if none
    repo_env,       \* TARGET_REPO as read from the environment
    pc,             \* position of the run
    idx,            \* index of the running for loop
    log,            \* host calls issued so far, in order
    resp,           \* last host response
    text,           \* kind of the body of the last host response
    invited,        \* collab: members whose invite PUT returned non-None
    outcome,        \* collab: what the accept phase printed per member
    invs,           \* collab: invitation list being scanned
    k,              \* collab: scan position in invs
    accepted,       \* collab: local flag accepted
    preflight,      \* secrets: result of check_permissions
    identity,       \* secrets: the response to GET /user
    key_data,       \* secrets: key and key_id last returned by get_public_key
    success_count,  \* secrets: success_count
    failed,         \* secrets: failed
    secret_value,   \* sealing: the plaintext, a string of characters
    private_key,    \* sealing: the repository's private key
    ciphers,        \* sealing: the texts returned by encrypt_secret so far
    opened          \* sealing: what opening each of them gave

vars == <<prog, users, pats, admin_env, repo_env, pc, idx, log, resp, text, invited, outcome, invs, k,
          accepted, preflight, identity, key_data, success_count, failed,
          secret_value, private_key, ciphers, opened>>

collabVars == <<invited, outcome, invs, k, accepted>>
secretVars == <<preflight, identity, key_data, success_count, failed>>
config == <<prog, users, pats, admin_env, repo_env>>
sealVars == <<secret_value, private_key, ciphers, opened>>
runVars == <<pc, idx, log, resp, text, collabVars, secretVars>>

\* ---------------------------------------------------------------- helpers
Range(s) == {s[i] : i \in 1..Len(s)}
Min(a, b) == IF a < b THEN a ELSE b

\* [x for i in range(1, 21) if os.getenv(...)]: the set slots, in slot order
RECURSIVE SlotsIn(_, _)
SlotsIn(S, i) ==
    IF i > MaxSlots THEN <<>>
    ELSE (IF i \in S THEN <<i>> ELSE <<>>) \o SlotsIn(S, i + 1)

USERS == SlotsIn(users, 1)
TOKENS == SlotsIn(pats, 1)
SecretTOKENS == SlotsIn(pats, 1)

\* s[1:]
Rest(s) == IF s = <<>> THEN <<>> ELSE Tail(s)

\* zip(a, b): stops at the shorter of the two
Zip(a, b) == [i \in 1..Min(Len(a), Len(b)) |-> <<a[i], b[i]>>]

Invitees == Rest(USERS)

\* not TARGET_REPO or "/" not in TARGET_REPO
Malformed(repo) == repo = <<>> \/ "/" \notin Range(repo)

\* TARGET_REPO after the module-level default f"{ADMIN_USERNAME}/hapus"
TARGET_REPO ==
    IF Malformed(repo_env) THEN <<admin_env, "/", "hapus">> ELSE repo_env
Pairs == Zip(Rest(USERS), Rest(TOKENS))

\* --------------------------------------------------------- host responses
NoResp == [kind |-> "none", status |-> 0]
Exc == [kind |-> "exc", status |-> 0]
Responses == {[kind |-> "resp", status |-> s] : s \in Statuses} \cup {Exc}

\* a host that never answers the request
Silent == [kind |-> "silent", status |-> 0]
HostAnswers == Responses \cup {Silent}

\* requests with timeout=seconds: a request that gets no answer raises
\* Timeout after that time; without a timeout (0 here) it waits on
TimedOut(h, seconds) == IF h.kind = "silent" /\ seconds > 0 THEN Exc ELSE h
Received(seconds) == {TimedOut(h, seconds) : h \in HostAnswers}

RECURSIVE SeqsUpTo(_, _)
SeqsUpTo(S, n) ==
    IF n = 0 THEN {<<>>}
    ELSE LET shorter == SeqsUpTo(S, n - 1)
         IN shorter \cup {Append(s, x) : s \in shorter, x \in S}

\* bodies of a response: empty text, a JSON object, text that is not JSON,
\* or a JSON list of invitations (each reduced to its repository full_name)
Bodies ==
    {[kind |-> bk, items |-> <<>>] : bk \in {"empty", "dict", "badjson"}}
    \cup {[kind |-> "list", items |-> l] : l \in SeqsUpTo(RepoNames, MaxInv)}
PlainBodies == {b \in Bodies : b.kind # "list"}

\* the scripts parse the body of an answer with a success status only; the
\* body of any other answer is one and the same to them
Parsed(r) == r.kind = "resp" /\ r.status \in CallSuccessStatuses
BodiesOf(r, bodies) ==
    IF Parsed(r) THEN bodies ELSE {[kind |-> "empty", items |-> <<>>]}

\* resp.text as far as the scripts look at it
TextOf(r, body) == IF Parsed(r) THEN body.kind ELSE "none"

\* values returned by GitHubClient.call
None == [none |-> TRUE, list |-> FALSE, items |-> <<>>]
Dict == [none |-> FALSE, list |-> FALSE, items |-> <<>>]
List(l) == [none |-> FALSE, list |-> TRUE, items |-> l]

\* GitHubClient.call: any exception (transport, resp.json()) gives None
Call(r, body) ==
    IF r.kind = "exc" THEN None
    ELSE IF r.status \in CallSuccessStatuses
         THEN CASE body.kind = "empty" -> Dict
                [] body.kind = "dict" -> Dict
                [] body.kind = "list" -> List(body.items)
                [] OTHER -> None
         ELSE None

\* a request and how its answer was judged; key is the key_id in the answer
\* of a public-key GET or in the body of a secret PUT, 0 for the other calls
KeyEntry(op, cred, arg, ok, key) ==
    [op |-> op, cred |-> cred, arg |-> arg, ok |-> ok, key |-> key]
Entry(op, cred, arg, ok) == KeyEntry(op, cred, arg, ok, 0)

WorkflowOps == {"GET_pubkey", "PUT_secret", "PUT_invite", "GET_invitations",
                "PATCH_accept"}
AcceptOps == {"GET_invitations", "PATCH_accept"}

\* the run has issued no call yet
NotStarted ==
    /\ pc = "start"
    /\ idx = 1
    /\ log = <<>>
    /\ resp = NoResp
    /\ text = "none"
    /\ invited = {}
    /\ outcome = [s \in Slots |-> "none"]
    /\ invs = <<>>
    /\ k = 1
    /\ accepted = FALSE
    /\ preflight = "none"
    /\ identity = [kind |-> "none", status |-> 0, scopes |-> {}]
    /\ key_data = 0
    /\ success_count = 0
    /\ failed = <<>>

\* nothing was sealed
NotSealed ==
    /\ secret_value = <<>>
    /\ private_key = 0
    /\ ciphers = <<>>
    /\ opened = <<>>

\* the state after load_dotenv(), whatever the environment holds
Loaded ==
    /\ NotStarted
    /\ NotSealed
    /\ prog \in {"secrets", "collab"}
    /\ users \in SUBSET Slots
    /\ pats \in SUBSET Slots
    /\ (prog = "secrets" => users = {})

\* runs in which ADMIN_USERNAME names the user of slot 1 and TARGET_REPO is
\* an owner/repo string
Init ==
    /\ Loaded
    /\ admin_env = AdminSlot
    /\ repo_env = <<"o", "/", "r">>

\* runs with any ADMIN_USERNAME and any TARGET_REPO
InitConfig ==
    /\ Loaded
    /\ admin_env \in AdminNames
    /\ repo_env \in RepoEnvs

\* ================================================= setup_collaborators.py
\* admin_client = GitHubClient(TOKENS[0]): IndexError when no PATi is set
CollabStart ==
    /\ prog = "collab"
    /\ pc = "start"
    /\ pc' = IF TOKENS = <<>> THEN "crashed" ELSE "invite"
    /\ idx' = 1
    /\ UNCHANGED <<config, sealVars, log, resp, text, collabVars, secretVars>>

\* one iteration of "for u in USERS[1:]": the admin client PUTs the invite
Invite ==
    /\ prog = "collab"
    /\ pc = "invite"
    /\ idx <= Len(Invitees)
    /\ \E r \in Received(ClientTimeout) : \E body \in BodiesOf(r, PlainBodies) :
         LET u == Invitees[idx]
             result == Call(r, body)
         IN /\ log' = Append(log, Entry("PUT_invite", TOKENS[1], u, ~result.none))
            /\ resp' = r
            /\ text' = TextOf(r, body)
            /\ invited' = IF result.none THEN invited ELSE invited \cup {u}
    /\ idx' = idx + 1
    /\ UNCHANGED <<config, sealVars, pc, outcome, invs, k, accepted, secretVars>>

\* the mutant leaves the invite loop after its first iteration
InvitePhaseCompleteEarly(i, invitees) == i > Min(1, Len(invitees))
\* the for loop of step 1 is exhausted
InvitePhaseComplete(i, invitees) == i > Len(invitees)

\* end of the invite loop, time.sleep(5), start of step 2
SettlingWait ==
    /\ prog = "collab"
    /\ pc = "invite"
    /\ InvitePhaseComplete(idx, Invitees)
    /\ pc' = "accept"
    /\ idx' = 1
    /\ UNCHANGED <<config, sealVars, log, resp, text, collabVars, secretVars>>

\* not invitations or not isinstance(invitations, list)
NoInvitations(result) == result.none \/ ~result.list \/ result.items = <<>>

\* position of the first entry at or after p whose repository full_name is
\* TARGET_REPO, 0 when there is none
RECURSIVE NextMatch(_, _)
NextMatch(list, p) ==
    IF p > Len(list) THEN 0
    ELSE IF list[p] = "target" THEN p
    ELSE NextMatch(list, p + 1)

\* the mutant marks the member accepted whatever the PATCH returned
PatchAcceptedAlways(result) == TRUE
\* if result is not None: accepted = True
PatchAccepted(result) == ~result.none

\* the mutant goes on scanning after the PATCH
AfterPatchNoBreak(list, p) == p + 1
\* break: the scan of the list ends after the first matching entry
AfterPatch(list, p) == Len(list) + 1

\* what is printed for the member after the scan
Mark(acc) == IF acc THEN "accepted" ELSE "stuck"

\* one iteration of "for u, t in zip(USERS[1:], TOKENS[1:])" up to the scan:
\* the GET of the invitation list with token t
AcceptGet ==
    /\ prog = "collab"
    /\ pc = "accept"
    /\ idx <= Len(Pairs)
    /\ \E r \in Received(ClientTimeout) : \E body \in BodiesOf(r, Bodies) :
         LET u == Pairs[idx][1]
             t == Pairs[idx][2]
             invitations == Call(r, body)
         IN /\ log' = Append(log, Entry("GET_invitations", t, u, ~invitations.none))
            /\ resp' = r
            /\ text' = TextOf(r, body)
            /\ accepted' = FALSE
            /\ IF NoInvitations(invitations)
               THEN /\ outcome' = [outcome EXCEPT ![u] = "stuck"]
                    /\ invs' = <<>>
                    /\ k' = 1
                    /\ idx' = idx + 1
                    /\ pc' = "accept"
               ELSE /\ invs' = invitations.items
                    /\ k' = 1
                    /\ IF NextMatch(invitations.items, 1) = 0
                       THEN /\ outcome' = [outcome EXCEPT ![u] = Mark(FALSE)]
                            /\ idx' = idx + 1
                            /\ pc' = "accept"
                       ELSE /\ outcome' = outcome
                            /\ idx' = idx
                            /\ pc' = "patch"
    /\ UNCHANGED <<config, sealVars, invited, secretVars>>

\* the PATCH of the matching invitation with the same client, then the rest
\* of the scan and the end of the iteration
AcceptPatch ==
    /\ prog = "collab"
    /\ pc = "patch"
    /\ \E r \in Received(ClientTimeout) : \E body \in BodiesOf(r, PlainBodies) :
         LET u == Pairs[idx][1]
             t == Pairs[idx][2]
             p == NextMatch(invs, k)
             result == Call(r, body)
             acc == accepted \/ PatchAccepted(result)
             nk == AfterPatch(invs, p)
         IN /\ log' = Append(log, Entry("PATCH_accept", t, u, ~result.none))
            /\ resp' = r
            /\ text' = TextOf(r, body)
            /\ accepted' = acc
            /\ k' = nk
            /\ IF NextMatch(invs, nk) = 0
               THEN /\ outcome' = [outcome EXCEPT ![u] = Mark(acc)]
                    /\ idx' = idx + 1
                    /\ pc' = "accept"
               ELSE /\ outcome' = outcome
                    /\ idx' = idx
                    /\ pc' = "patch"
    /\ UNCHANGED <<config, sealVars, invited, invs, secretVars>>

\* end of the accept loop and the closing banner
CollabDone ==
    /\ prog = "collab"
    /\ pc = "accept"
    /\ idx > Len(Pairs)
    /\ pc' = "done"
    /\ UNCHANGED <<config, sealVars, idx, log, resp, text, collabVars, secretVars>>

\* ========================================================= auto_secrets.py
\* module level: exit(1) when PAT1 is not set (then TOKENS cannot be empty)
SecretsStart ==
    /\ prog = "secrets"
    /\ pc = "start"
    /\ pc' = IF AdminSlot \notin pats \/ SecretTOKENS = <<>>
             THEN "exit" ELSE "preflight"
    /\ UNCHANGED <<config, sealVars, idx, log, resp, text, collabVars, secretVars>>

\* the X-OAuth-Scopes header the host sends for a set of granted scopes:
\* the scope names joined by ", " (header absent or empty for no scope)
RECURSIVE Join(_)
Join(l) ==
    IF l = <<>> THEN <<>>
    ELSE IF Len(l) = 1 THEN <<l[1]>>
    ELSE <<l[1], SEP>> \o Join(Tail(l))

Header(granted) == Join(SelectSeq(ScopeOrder, LAMBDA x : x \in granted))

\* str.split(", "): the pieces between separators; "" gives [""]
RECURSIVE Split(_)
Split(h) ==
    IF h = <<>> THEN << <<>> >>
    ELSE LET rest == Split(Tail(h))
         IN IF Head(h) = SEP THEN << <<>> >> \o rest
            ELSE << <<Head(h)>> \o rest[1] >> \o Tail(rest)

\* the mutant forgets the workflow scope
MissingRepoOnly(scopes) == {s \in {"repo"} : <<s>> \notin Range(scopes)}
\* missing = [s for s in required if s not in scopes]
Missing(scopes) == {s \in RequiredScopes : <<s>> \notin Range(scopes)}

\* where an unguarded request leaves the run: waiting for ever when no
\* answer comes, in the except clause of __main__ when it raises
Interrupted(r) == IF r.kind = "silent" THEN "blocked" ELSE "aborted"

\* check_permissions and the branch of __main__ on its result; an exception
\* of requests.get reaches the except clause of __main__
CheckPermissions ==
    /\ prog = "secrets"
    /\ pc = "preflight"
    /\ \E r \in Received(NoTimeout), granted \in SUBSET ScopeNames :
         LET g == IF r.kind = "resp" /\ r.status = 200 THEN granted ELSE {}
             scopes == Split(Header(g))
         IN /\ resp' = r
            /\ text' = "none"
            /\ identity' = [kind |-> r.kind, status |-> r.status, scopes |-> g]
            /\ log' = Append(log, Entry("GET_user", AdminSlot, 0,
                                        r.kind = "resp" /\ r.status = 200))
            /\ IF r.kind = "silent"
               THEN preflight' = preflight /\ pc' = Interrupted(r)
               ELSE IF r.kind = "exc"
               THEN preflight' = "raised" /\ pc' = Interrupted(r)
               ELSE IF r.status # 200
               THEN preflight' = "false" /\ pc' = "exit"
               ELSE IF Missing(scopes) # {}
               THEN preflight' = "false" /\ pc' = "exit"
               ELSE preflight' = "true" /\ pc' = "secrets"
    /\ idx' = 1
    /\ UNCHANGED <<config, sealVars, collabVars, key_data, success_count, failed>>

\* the mutant counts the entry as a success whatever the call returned
SuccessCountAlways(c, ok) == c + 1
\* if create_or_update_secret(...): success_count += 1
SuccessCountNext(c, ok) == IF ok THEN c + 1 ELSE c

\* else: failed.append(secret_name)
FailedNext(f, name, ok) == IF ok THEN f ELSE Append(f, name)

\* the mutant keeps the key of an earlier call instead of the one just read
CachedKeyData(old, new) == IF old # 0 THEN old ELSE new
\* key_data = get_public_key(repo, token): a local of every call, so what an
\* earlier call fetched is never read
FetchedKeyData(old, new) == new

\* one iteration of the loop of setup_secrets up to the public-key GET of
\* create_or_update_secret; requests.get and resp.json() are not guarded
GetPublicKey ==
    /\ prog = "secrets"
    /\ pc = "secrets"
    /\ idx <= Len(SecretTOKENS)
    /\ \E r \in Received(NoTimeout) : \E body \in BodiesOf(r, PlainBodies), kid \in KeyIds :
         LET name == SecretTOKENS[idx]
             raised == r.kind \in {"exc", "silent"}
                         \/ (r.status = 200 /\ body.kind # "dict")
             got == r.kind = "resp" /\ r.status = 200 /\ body.kind = "dict"
         IN /\ resp' = r
            /\ text' = TextOf(r, body)
            /\ log' = Append(log, KeyEntry("GET_pubkey", AdminSlot, name, got,
                                            IF got THEN kid ELSE 0))
            /\ IF raised
               THEN /\ pc' = Interrupted(r)
                    /\ UNCHANGED <<idx, key_data, success_count, failed>>
               ELSE IF got
               THEN /\ pc' = "put"
                    /\ key_data' = FetchedKeyData(key_data, kid)
                    /\ UNCHANGED <<idx, success_count, failed>>
               ELSE /\ pc' = "secrets"
                    /\ key_data' = key_data
                    /\ idx' = idx + 1
                    /\ success_count' = SuccessCountNext(success_count, FALSE)
                    /\ failed' = FailedNext(failed, name, FALSE)
    /\ UNCHANGED <<config, sealVars, collabVars, preflight, identity>>

\* the rest of create_or_update_secret: seal, PUT, and the bookkeeping of
\* setup_secrets for the entry
PutSecret ==
    /\ prog = "secrets"
    /\ pc = "put"
    /\ \E r \in Received(NoTimeout) :
         LET name == SecretTOKENS[idx]
             ok == r.kind = "resp" /\ r.status \in SecretPutSuccessStatuses
         IN /\ resp' = r
            /\ text' = "none"
            /\ log' = Append(log, KeyEntry("PUT_secret", AdminSlot, name, ok,
                                            key_data))
            /\ IF r.kind \in {"exc", "silent"}
               THEN /\ pc' = Interrupted(r)
                    /\ UNCHANGED <<idx, success_count, failed>>
               ELSE /\ pc' = "secrets"
                    /\ idx' = idx + 1
                    /\ success_count' = SuccessCountNext(success_count, ok)
                    /\ failed' = FailedNext(failed, name, ok)
    /\ UNCHANGED <<config, sealVars, collabVars, preflight, identity, key_data>>

\* end of the loop of setup_secrets and its summary
SecretsDone ==
    /\ prog = "secrets"
    /\ pc = "secrets"
    /\ idx > Len(SecretTOKENS)
    /\ pc' = "done"
    /\ UNCHANGED <<config, sealVars, idx, log, resp, text, collabVars, secretVars>>

Next ==
    \/ CollabStart
    \/ Invite
    \/ SettlingWait
    \/ AcceptGet
    \/ AcceptPatch
    \/ CollabDone
    \/ SecretsStart
    \/ CheckPermissions
    \/ GetPublicKey
    \/ PutSecret
    \/ SecretsDone

Spec == Init /\ [][Next]_vars

SpecConfig == InitConfig /\ [][Next]_vars

\* ======================================================== encrypt_secret
\* Bytes are numbers 0..255, a base64 text is the sequence of the alphabet
\* indices 0..63 of its characters with PAD for "=". The sealed box is
\* reduced to its structure: the sender draws an ephemeral key pair, derives
\* a shared secret from its ephemeral private key and the recipient's public
\* key, encrypts under it and sends the ephemeral public key in front; with
\* one-byte keys in the group of residues modulo P.
P == 251
G == 6
PAD == 64
Chars == {"a", "eacute"}

RECURSIVE Pow(_, _)
Pow(b, e) == IF e = 0 THEN 1 ELSE (b * Pow(b, e - 1)) % P

\* the mutant encodes to latin-1
Latin1Encode(str) ==
    [i \in 1..Len(str) |-> IF str[i] = "a" THEN 97 ELSE 233]
\* str.encode("utf-8")
RECURSIVE Utf8Encode(_)
Utf8Encode(str) ==
    IF str = <<>> THEN <<>>
    ELSE (IF Head(str) = "a" THEN <<97>> ELSE <<195, 169>>)
         \o Utf8Encode(Tail(str))

\* bytes.decode("utf-8"), "invalid" standing for UnicodeDecodeError
RECURSIVE Utf8Decode(_)
Utf8Decode(bytes) ==
    IF bytes = <<>> THEN <<>>
    ELSE IF bytes[1] = 97
    THEN LET rest == Utf8Decode(Tail(bytes))
         IN IF rest = <<"invalid">> THEN rest ELSE <<"a">> \o rest
    ELSE IF Len(bytes) >= 2 /\ bytes[1] = 195 /\ bytes[2] = 169
    THEN LET rest == Utf8Decode(SubSeq(bytes, 3, Len(bytes)))
         IN IF rest = <<"invalid">> THEN rest ELSE <<"eacute">> \o rest
    ELSE <<"invalid">>

\* base64.b64encode
RECURSIVE B64Encode(_)
B64Encode(b) ==
    IF b = <<>> THEN <<>>
    ELSE IF Len(b) = 1
    THEN <<b[1] \div 4, (b[1] % 4) * 16, PAD, PAD>>
    ELSE IF Len(b) = 2
    THEN <<b[1] \div 4, (b[1] % 4) * 16 + b[2] \div 16, (b[2] % 16) * 4, PAD>>
    ELSE <<b[1] \div 4, (b[1] % 4) * 16 + b[2] \div 16,
           (b[2] % 16) * 4 + b[3] \div 64, b[3] % 64>>
         \o B64Encode(SubSeq(b, 4, Len(b)))

\* base64.b64decode
RECURSIVE B64Decode(_)
B64Decode(t) ==
    IF Len(t) < 4 THEN <<>>
    ELSE LET b1 == t[1] * 4 + t[2] \div 16
             b2 == (t[2] % 16) * 16 + t[3] \div 4
             b3 == (t[3] % 4) * 64 + t[4]
         IN IF t[3] = PAD THEN <<b1>>
            ELSE IF t[4] = PAD THEN <<b1, b2>>
            ELSE <<b1, b2, b3>> \o B64Decode(SubSeq(t, 5, Len(t)))

\* the public key of a private key, and the key as the host publishes it
PublicKey(sk) == Pow(G, sk)
PublicKeyText(sk) == B64Encode(<<PublicKey(sk)>>)

\* SealedBox(PublicKey(key_bytes)).encrypt(message) with ephemeral key e
SealedBoxEncrypt(key_bytes, message, e) ==
    LET shared == Pow(key_bytes[1], e)
    IN <<Pow(G, e)>> \o [i \in 1..Len(message) |-> (message[i] + shared) % 256]

\* SealedBox(PrivateKey(sk)).decrypt(box): the holder of the private key
\* derives the same shared secret from the ephemeral public key in front
SealedBoxDecrypt(sk, box) ==
    LET shared == Pow(box[1], sk)
    IN [i \in 1..(Len(box) - 1) |-> (box[i + 1] + 256 - shared) % 256]

\* secret_value.encode("utf-8")
EncodeSecret(str) == Utf8Encode(str)

\* encrypt_secret(public_key, secret_value), e being the randomness drawn
encrypt_secret(public_key, value, e) ==
    LET public_key_bytes == B64Decode(public_key)
        encrypted == SealedBoxEncrypt(public_key_bytes, EncodeSecret(value), e)
    IN B64Encode(encrypted)

\* what the host reads back from an encrypted_value
OpenSecret(sk, encrypted_value) ==
    Utf8Decode(SealedBoxDecrypt(sk, B64Decode(encrypted_value)))

\* a secret value and a repository key pair
InitSeal ==
    /\ NotStarted
    /\ prog = "seal"
    /\ users = {}
    /\ pats = {}
    /\ admin_env = AdminSlot
    /\ repo_env = <<"o", "/", "r">>
    /\ secret_value \in SeqsUpTo(Chars, MaxPlain)
    /\ private_key \in 1..MaxPrivate
    /\ ciphers = <<>>
    /\ opened = <<>>

\* one call of encrypt_secret with the repository's public key
EncryptSecret ==
    /\ prog = "seal"
    /\ Len(ciphers) < MaxSeals
    /\ \E e \in 1..MaxEphemeral :
         ciphers' = Append(ciphers,
                      encrypt_secret(PublicKeyText(private_key), secret_value, e))
    /\ UNCHANGED <<config, runVars, secret_value, private_key, opened>>

\* the holder of the private key opens the next sealed text
OpenSealed ==
    /\ prog = "seal"
    /\ Len(opened) < Len(ciphers)
    /\ opened' = Append(opened,
                    OpenSecret(private_key, ciphers[Len(opened) + 1]))
    /\ UNCHANGED <<config, runVars, secret_value, private_key, ciphers>>

NextSeal ==
    \/ EncryptSecret
    \/ OpenSealed

SpecSeal == InitSeal /\ [][NextSeal]_vars

\* ================================================================ claims
Calls(op) == {i \in 1..Len(log) : log[i].op = op}
CallsFor(op, u) == {i \in Calls(op) : log[i].arg = u}
AcceptCalls == {i \in 1..Len(log) : log[i].op \in AcceptOps}
Last(s) == s[Len(s)]

\* members of the configuration: slots other than the admin's with both a
\* username and a token
Members == (users \cap pats) \ {AdminSlot}

\* C1: no accept-phase call (invitation-list GET, accept PATCH) is issued
\* before the invite PUT was issued for every member username, and no invite
\* PUT follows an accept-phase call.
C1_PhaseOrder ==
    \A j \in AcceptCalls :
        /\ \A u \in Range(Invitees) : \E i \in CallsFor("PUT_invite", u) : i < j
        /\ \A i \in Calls("PUT_invite") : i < j

C1_Witness ==
    /\ Len(Invitees) >= 2
    /\ AcceptCalls # {}
    /\ Cardinality(Calls("PUT_invite")) >= 2

\* C2: every invite PUT carries the admin's credential (PAT1) and every
\* accept-phase GET or PATCH made for member USERNAMEi carries PATi of the
\* same slot.
C2_OwnCredentials ==
    \A i \in 1..Len(log) :
        /\ log[i].op = "PUT_invite" => log[i].cred = AdminSlot
        /\ log[i].op \in AcceptOps => log[i].cred = log[i].arg

\* C3: a member whose accept iteration has ended is marked accepted exactly
\* when the list returned to the GET of its iteration has an entry for the
\* target repository and the PATCH of that entry succeeded; otherwise (fetch
\* failed, no list, no such entry, PATCH failed) it is marked stuck.
C3_AcceptedIff ==
    /\ \A u \in Slots :
         /\ outcome[u] = "accepted" <=>
              \E i \in CallsFor("PATCH_accept", u) : log[i].ok
         /\ (outcome[u] = "none" /\ CallsFor("GET_invitations", u) # {})
              => (pc = "patch" /\ Pairs[idx][1] = u)
    /\ (pc \in {"accept", "done"} /\ AcceptCalls # {}) =>
         LET e == Last(log)
             u == e.arg
             fetched == \E i \in CallsFor("GET_invitations", u) : log[i].ok
             found == fetched /\ "target" \in Range(invs)
         IN /\ outcome[u] \in {"accepted", "stuck"}
            /\ outcome[u] = "accepted" <=>
                 (found /\ e.op = "PATCH_accept" /\ e.ok)
            /\ e.op = "PATCH_accept" => found
            /\ (e.op = "GET_invitations") => ~found

C3_Witness ==
    /\ pc = "done"
    /\ \E u \in Slots : outcome[u] = "accepted"
    /\ \E v \in Slots :
         /\ outcome[v] = "stuck"
         /\ \E i \in CallsFor("PATCH_accept", v) : ~log[i].ok

\* C4: in one run at most one invitation-list GET and at most one accept
\* PATCH are issued per member, whatever the host answers.
C4_OneObservation ==
    \A u \in Slots :
        /\ Cardinality(CallsFor("GET_invitations", u)) <= 1
        /\ Cardinality(CallsFor("PATCH_accept", u)) <= 1

C4_Witness ==
    /\ pc \in {"accept", "done"}
    /\ Len(invs) = 2
    /\ invs[1] = "target"
    /\ invs[2] = "target"
    /\ Last(log).op = "PATCH_accept"
    /\ ~Last(log).ok

\* C5: when the bootstrap has ended, every configured member other than the
\* admin got exactly one invite PUT and exactly one invitation-list GET with
\* its own credential.
C5_EveryMemberAttempted ==
    (prog = "collab" /\ pc = "done") =>
        \A m \in Members :
            /\ Cardinality(CallsFor("PUT_invite", m)) = 1
            /\ Cardinality({i \in CallsFor("GET_invitations", m) :
                               log[i].cred = m}) = 1

\* C6: when the provisioning run has ended after a passed preflight, every
\* secret of the input mapping was attempted, whatever failed for the others.
C6_EverySecretAttempted ==
    (prog = "secrets" /\ preflight = "true" /\ pc \in {"done", "aborted"}) =>
        \A n \in Range(SecretTOKENS) : CallsFor("GET_pubkey", n) # {}

\* C7: after setup_secrets has run over the mapping, every input name is
\* either counted as a success or listed once in failed, never both, never
\* neither: success_count + len(failed) is the number of input names.
Succeeded == {n \in Range(SecretTOKENS) :
                 \E i \in CallsFor("PUT_secret", n) : log[i].ok}

C7_OneOutcomePerName ==
    (prog = "secrets" /\ pc = "done") =>
        /\ success_count + Len(failed) = Len(SecretTOKENS)
        /\ success_count = Cardinality(Succeeded)
        /\ Cardinality(Range(failed)) = Len(failed)
        /\ Range(failed) = Range(SecretTOKENS) \ Succeeded

C7_Witness ==
    /\ prog = "secrets"
    /\ pc = "done"
    /\ success_count >= 1
    /\ Len(failed) >= 1

\* C8: no workflow call (public-key GET, secret PUT, invite PUT,
\* invitation-list GET, accept PATCH) is issued unless the preflight ran
\* earlier in the run and returned true.
C8_PreflightGate ==
    \A i \in 1..Len(log) :
        log[i].op \in WorkflowOps => preflight = "true"

\* C9: check_permissions returns true exactly when GET /user succeeded and
\* the granted scopes contain both repo and workflow; it returns false when
\* the identity call is answered with a failure status or a required scope
\* is absent.
IdentityOk == identity.kind = "resp" /\ identity.status = 200

C9_PreflightIff ==
    preflight # "none" =>
        /\ preflight = "true" <=>
             (IdentityOk /\ RequiredScopes \subseteq identity.scopes)
        /\ (identity.kind = "resp"
              /\ ~(IdentityOk /\ RequiredScopes \subseteq identity.scopes))
             => preflight = "false"

C9_Witness ==
    /\ preflight = "false"
    /\ IdentityOk
    /\ "repo" \in identity.scopes
    /\ "workflow" \notin identity.scopes

\* C10: a transport failure of a host call is never raised to the workflow
\* layer: no run is ended by an exception.
C10_NoExceptionRaised == pc # "aborted"

\* C11: every host call is judged by the same criterion: GitHubClient.call
\* returns a value other than None, and a secret upsert PUT is recorded as a
\* success, exactly when the status is one of 200, 201, 204 (the body of a
\* successful answer being empty or JSON).
JudgedOps == {"PUT_invite", "GET_invitations", "PATCH_accept", "PUT_secret"}

C11_UniformSuccess ==
    (log # <<>> /\ Last(log).op \in JudgedOps /\ text # "badjson") =>
        (Last(log).ok <=>
            (resp.kind = "resp" /\ resp.status \in CallSuccessStatuses))

\* C12: when the bootstrap has ended, every member is reported either as
\* accepted or as stuck, so the two counts add up to the number of members,
\* and a member whose invite PUT was rejected, and who found no invitation
\* to accept, is reported as stuck (stated for the configurations in which
\* the admin's own slot is filled).
Reported(mark) == {u \in Members : outcome[u] = mark}

C12_FinalReport ==
    (prog = "collab" /\ pc = "done" /\ AdminSlot \in users \cap pats) =>
        /\ Cardinality(Reported("accepted")) + Cardinality(Reported("stuck"))
             = Cardinality(Members)
        /\ \A u \in Members :
             (/\ \E i \in CallsFor("PUT_invite", u) : ~log[i].ok
              /\ CallsFor("PATCH_accept", u) = {})
                => outcome[u] = "stuck"

\* C13: the public key is fetched for every entry: each secret PUT follows
\* a successful public-key GET issued for the same entry and carries the
\* key_id (and is sealed with the key) of that answer, also when the host
\* rotated the key since the previous entry; an entry whose fetch failed gets
\* no PUT.
C13_FreshKey ==
    /\ \A j \in Calls("PUT_secret") :
         /\ j > 1
         /\ log[j - 1].op = "GET_pubkey"
         /\ log[j - 1].arg = log[j].arg
         /\ log[j - 1].ok
         /\ log[j].key = log[j - 1].key
    /\ \A i \in Calls("GET_pubkey") :
         ~log[i].ok => CallsFor("PUT_secret", log[i].arg) = {}

C13_Witness ==
    /\ \E i, j \in Calls("PUT_secret") : i < j /\ log[i].key # log[j].key
    /\ \E i \in Calls("GET_pubkey") : ~log[i].ok

\* C14: a configuration error (admin credential missing, no secret
\* configured, TARGET_REPO empty or without a slash) ends the run before any
\* call to the host, in both runs.
ConfigurationError ==
    \/ AdminSlot \notin pats
    \/ (prog = "secrets" /\ SecretTOKENS = <<>>)
    \/ Malformed(repo_env)

C14_ConfigErrorFatal == ConfigurationError => log = <<>>

\* C15: the admin's own entry is skipped: no invite PUT targets the username
\* ADMIN_USERNAME, no accept-phase call carries the admin's credential, and
\* when the bootstrap has ended every other username that is set was invited.
C15_AdminSkipped ==
    /\ \A i \in 1..Len(log) :
         /\ log[i].op = "PUT_invite" => log[i].arg # admin_env
         /\ log[i].op \in AcceptOps => log[i].cred # AdminSlot
    /\ (prog = "collab" /\ pc = "done") =>
         \A u \in users \ {admin_env} : CallsFor("PUT_invite", u) # {}

\* C16: every host call has a timeout, so no call of a run waits for ever,
\* and a run issues a bounded number of calls (one preflight call and two
\* calls per secret, or three calls per member).
C16_NoCallBlocks ==
    /\ pc # "blocked"
    /\ Len(log) <= 1 + 3 * MaxSlots

\* C17: opening a text returned by encrypt_secret with the matching private
\* key gives back the secret value exactly, for every value, key pair and
\* randomness of the seal, also when two seals of the value differ.
C17_RoundTrip ==
    \A i \in 1..Len(opened) : opened[i] = secret_value

C17_Witness ==
    /\ Len(opened) = 2
    /\ ciphers[1] # ciphers[2]
    /\ Len(secret_value) = 2
    /\ "eacute" \in Range(secret_value)

\* C18 (as claimed): a member is marked accepted only if the admin's invite
\* PUT for that member succeeded earlier in the run.
C18_AcceptedOnlyIfInvited ==
    \A u \in Slots :
        outcome[u] = "accepted" =>
            \E i \in CallsFor("PUT_invite", u) : log[i].ok

\* C18 (amended): a member is marked accepted only if, after the invite PUT
\* for that member was issued (successfully or not), the invitation list
\* fetched for the member was returned and the PATCH that followed it
\* succeeded: the invitation accepted is one the host lists, created by
\* this run or held from before.
C18_AcceptedOnlyIfListed ==
    \A u \in Slots :
        outcome[u] = "accepted" =>
            \E i \in CallsFor("PUT_invite", u) :
                \E j \in CallsFor("GET_invitations", u) :
                    /\ i < j
                    /\ log[j].ok
                    /\ j < Len(log)
                    /\ log[j + 1].op = "PATCH_accept"
                    /\ log[j + 1].arg = u
                    /\ log[j + 1].ok

C18_Witness ==
    \E u \in Slots :
        /\ outcome[u] = "accepted"
        /\ u \notin invited
        /\ \E i \in CallsFor("PUT_invite", u) : ~log[i].ok

====
